---- MODULE Spec2Model ----
(***************************************************************************)
(* Model of the oula-transfer daily metrics job.                           *)
(*                                                                         *)
(* The repository holds two builds of the same program: src/main.go (five  *)
(* metrics, DSN check at startup, os.Exit(1) in the helpers) and           *)
(* src/unnamed/part_000 (four metrics, no DSN check, log.Fatalf in the     *)
(* helpers).  The variable `program` says which build is running.          *)
(*                                                                         *)
(* Time is a wall clock counted in ticks (TicksPerMinute ticks per minute, *)
(* HoursPerDay * MinutesPerHour minutes per day); the location is taken to *)
(* have no daylight-saving shifts, so a calendar day is 24 hours.          *)
(***************************************************************************)
EXTENDS Integers, Sequences, FiniteSets, TLC

VARIABLES
    program,        \* which build runs: "main" (src/main.go) or "part_000"
    pgDsn,          \* flag -pgDsn
    mysqlDsn,       \* flag -mysqlDsn
    executionTime,  \* flag -executionTime, a sequence of characters
    now,            \* the wall clock, in ticks
    pc,             \* position of the process
    exitCode,       \* exit status once pc = "exited" (0 while running)
    exitAt,         \* where the process was when it exited ("" while running)
    execution,      \* main's local `execution`: the due time of this iteration
    loopNow,        \* main's local `now`: the clock as read at the top of the loop
    pgDb,           \* TRUE while the handle returned by sql.Open("postgres") is open
    sqlDb,          \* TRUE while the handle returned by sql.Open("mysql") is open
    today,          \* transferData's local `today` (a calendar date)
    idx,            \* which metric of the catalog the run is at (1..N)
    count,          \* the value queryCount returned for metric idx
    source,         \* source store: what each metric's query counts
    tables,         \* destination store: table name -> sequence of rows
    trace,          \* what the current run has done so far (history)
    lastRun         \* date on which the latest run started, and whether an
                    \* earlier run had started on that date too (history)

vars == <<program, pgDsn, mysqlDsn, executionTime, now, pc, exitCode, exitAt, execution,
          loopNow, pgDb, sqlDb, today, idx, count, source, tables, trace,
          lastRun>>

-----------------------------------------------------------------------------
(* Bounds of the model *)

\* Clock resolution: ticks per minute.
TicksPerMinute == 2

\* The clock is followed over days 0 .. MaxDay-1.
MaxDay == 2

\* Smallest non-zero count held by the source store.
BaseCount == 7

-----------------------------------------------------------------------------
(* Time *)

HoursPerDay == 24

MinutesPerHour == 60

TicksPerHour == MinutesPerHour * TicksPerMinute

TicksPerDay == HoursPerDay * TicksPerHour

Horizon == MaxDay * TicksPerDay

\* time.Now().Format("2006-01-02"), now.Year()/Month()/Day(): the calendar
\* date an instant falls on, as a day number.
DateOf(t) == t \div TicksPerDay

\* time.Date(y, m, d, hour, min, 0, 0, loc): hour and min are normalised, so
\* out-of-range values roll over into neighbouring days.
TimeDate(day, hour, min) ==
    day * TicksPerDay + (hour * MinutesPerHour + min) * TicksPerMinute

Max(a, b) == IF a >= b THEN a ELSE b

-----------------------------------------------------------------------------
(* parseExecutionTime: fmt.Sscanf(timeStr, "%d:%d", &hour, &minute) *)

Digits == <<"0", "1", "2", "3", "4", "5", "6", "7", "8", "9">>

IsDigit(c) == \E i \in 1..Len(Digits) : Digits[i] = c

DigitVal(c) == (CHOOSE i \in 1..Len(Digits) : Digits[i] = c) - 1

RECURSIVE SkipSpace(_, _)
\* first position >= p of s that holds no blank
SkipSpace(s, p) ==
    IF p <= Len(s) /\ s[p] \in {" ", "\t"} THEN SkipSpace(s, p + 1) ELSE p

RECURSIVE ScanDigits(_, _, _)
\* consumes the digits of s from p on; acc is the value so far
ScanDigits(s, p, acc) ==
    IF p <= Len(s) /\ IsDigit(s[p])
    THEN ScanDigits(s, p + 1, acc * 10 + DigitVal(s[p]))
    ELSE [val |-> acc, next |-> p]

\* the verb %d at position p: blanks, an optional sign, at least one digit
ScanInt(s, p) ==
    LET q    == SkipSpace(s, p)
        neg  == q <= Len(s) /\ s[q] = "-"
        r    == IF q <= Len(s) /\ s[q] \in {"+", "-"} THEN q + 1 ELSE q
        d    == ScanDigits(s, r, 0)
    IN  IF d.next = r
        THEN [ok |-> FALSE, val |-> 0, next |-> r]
        ELSE [ok |-> TRUE, val |-> IF neg THEN 0 - d.val ELSE d.val, next |-> d.next]

\* hour and minute start at 0; Sscanf stores what it scanned before the
\* first mismatch and its error is dropped.
parseExecutionTime(timeStr) ==
    LET h == ScanInt(timeStr, 1)
        colon == h.ok /\ h.next <= Len(timeStr) /\ timeStr[h.next] = ":"
        m == IF colon THEN ScanInt(timeStr, h.next + 1)
                      ELSE [ok |-> FALSE, val |-> 0, next |-> h.next]
    IN  <<IF h.ok THEN h.val ELSE 0, IF m.ok THEN m.val ELSE 0>>

-----------------------------------------------------------------------------
(* The scheduler's due time *)

\* a comparison that also counts the instant itself as past
AfterOrEqual(t, u) == t >= u

\* now.After(execution)
After(t, u) == t > u

\* the due time left at today's hour:min even when that is past
NextExecutionToday(t, hour, min) == TimeDate(DateOf(t), hour, min)

\* the 24 hours counted from now instead of from today's hour:min
NextExecutionDrift(t, hour, min) ==
    LET e == TimeDate(DateOf(t), hour, min)
    IN  IF After(t, e) THEN t + HoursPerDay * TicksPerHour ELSE e

\* main, one loop iteration: execution := today at hour:min, plus 24 hours
\* when now is after it.
NextExecution(t, hour, min) ==
    LET e == TimeDate(DateOf(t), hour, min)
    IN  IF After(t, e) THEN e + HoursPerDay * TicksPerHour ELSE e

-----------------------------------------------------------------------------
(* The metric catalog: the table each metric is written to, in source order *)

Programs == {"main", "part_000"}

Catalog(prog) ==
    IF prog = "main"
    THEN << "active_machines_count_aleo",
            "active_machines_count_quai_garden",
            "lost_users_count",
            "active_channel_machines_count_aleo",
            "active_channel_machines_count_quai_garden" >>
    ELSE << "machines_count",
            "active_machines_count",
            "lost_users_count",
            "active_channel_machines_count" >>

TableNames == UNION {{Catalog(p)[i] : i \in 1..Len(Catalog(p))} : p \in Programs}

\* the longest catalog
MaxMetrics == Len(Catalog("main"))

\* the first two table names exchanged
TableNameSwapped(prog, i) ==
    Catalog(prog)[IF i = 1 THEN 2 ELSE IF i = 2 THEN 1 ELSE i]

\* the tableName argument of the i-th insertToMySQL call of transferData
TableName(prog, i) == Catalog(prog)[i]

\* the date taken from the clock anew at each insert
DateArgNow == DateOf(now)

\* the date argument of every insertToMySQL call of transferData
DateArg == today

-----------------------------------------------------------------------------
(* The source store: db.QueryRow(query).Scan(&count) *)

\* Contents of the source store, as the count each metric's query finds: a
\* quiet day (all zero), all different, and a mix.
SourceContents ==
    { [i \in 1..MaxMetrics |-> 0],
      [i \in 1..MaxMetrics |-> BaseCount + i - 1],
      [i \in 1..MaxMetrics |-> IF i % 2 = 0 THEN 0 ELSE BaseCount] }

\* What QueryRow(...).Scan(&count) can come back with: one integer row, no
\* row (sql.ErrNoRows), a NULL (Scan cannot store it in an int), or an error
\* of the query or the connection.
IntResult(c) == [kind |-> "int", val |-> c]

FailureKinds == {"norows", "null", "error"}

ScanResults(c) == {IntResult(c)} \cup {[kind |-> k, val |-> 0] : k \in FailureKinds}

\* The fifth query of src/main.go has an unterminated quote ('Quai_Garden),
\* so the source store rejects it every time.
QueryResults(prog, i, src) ==
    IF prog = "main" /\ i = 5
    THEN {[kind |-> "error", val |-> 0]}
    ELSE ScanResults(src[i])

\* a NULL scanned as the zero count
QueryErrNullOk(r) == r.kind \notin {"int", "null"}

\* a failed read that is only logged
QueryErrIgnored(r) == FALSE

\* queryCount: err != nil after Scan
QueryErr(r) == r.kind # "int"

\* queryCount: the value left in `count` (its zero value unless Scan stored one)
ScannedCount(r) == IF r.kind = "int" THEN r.val ELSE 0

-----------------------------------------------------------------------------
(* The destination store: db.Exec("INSERT INTO t (date, count) VALUES (?, ?)") *)

Row(date, c) == [date |-> date, count |-> c]

\* PRIMARY KEY (date): the table already holds a row of that date
DuplicateKey(rows, date) == \E k \in 1..Len(rows) : rows[k].date = date

\* Outcome of Exec: a duplicate key is rejected; otherwise the statement
\* succeeds unless the store or the connection fails (fault).
ExecResult(rows, date, fault) ==
    IF DuplicateKey(rows, date) THEN "dup"
    ELSE IF fault THEN "error"
    ELSE "ok"

\* a rejected duplicate taken as "already recorded", not as an error
InsertErrDupBenign(res) == res = "error"

\* only a rejected duplicate taken as an error
InsertErrDupOnly(res) == res = "dup"

\* a failed insert that is only logged
InsertErrIgnored(res) == FALSE

\* insertToMySQL: err != nil after Exec
InsertErr(res) == res # "ok"

\* the destination after a successful INSERT of (date, c) into table name
InsertRow(tbls, name, date, c) ==
    [tbls EXCEPT ![name] = Append(@, Row(date, c))]

-----------------------------------------------------------------------------
(* Inputs *)

\* -pgDsn and -mysqlDsn: both given, or one of them left at its default ""
DsnFlags == {<<"dsn", "dsn">>, <<"", "dsn">>, <<"dsn", "">>}

\* -executionTime values: the default "23:00", midnight, the last minute
ExecTimeStrs ==
    { <<"2", "3", ":", "0", "0">>,
      <<"0", "0", ":", "0", "0">>,
      <<"2", "3", ":", "5", "9">> }

ExecHour == parseExecutionTime(executionTime)[1]

ExecMinute == parseExecutionTime(executionTime)[2]

\* how long a database call, or the time between two steps, may take
Delays == {1, TicksPerHour}

\* how long an INSERT takes
InsertDelay == TicksPerMinute - 1

\* by how much time.Sleep may overshoot
Overshoots == {0} \cup Delays

\* instants at which the process may be started on day 0: just before, at
\* and just after the execution time
StartInstants(str) ==
    LET t == TimeDate(0, parseExecutionTime(str)[1], parseExecutionTime(str)[2])
    IN  {u \in {t - 1, t, t + 1} : u >= 0}

RunPcs == {"open_pg", "open_mysql", "today", "query", "insert", "ret"}

Event(op, i, res, table, date, c) ==
    [op |-> op, i |-> i, res |-> res, table |-> table, date |-> date, count |-> c]

-----------------------------------------------------------------------------
(* Initial state: the process has just been started *)

EmptyTables == [t \in TableNames |-> <<>>]

\* no run has started yet
NoRun == [date |-> 0 - 1, again |-> FALSE]

\* a run starts at instant t
RunStarted(last, t) == [date |-> DateOf(t), again |-> last.date = DateOf(t)]

Init ==
    /\ program \in Programs
    /\ \E f \in DsnFlags : pgDsn = f[1] /\ mysqlDsn = f[2]
    /\ executionTime \in ExecTimeStrs
    /\ now \in StartInstants(executionTime)
    /\ pc = "start"
    /\ exitCode = 0
    /\ exitAt = ""
    /\ execution = 0
    /\ loopNow = 0
    /\ pgDb = FALSE
    /\ sqlDb = FALSE
    /\ today = 0
    /\ idx = 0
    /\ count = 0
    /\ source \in SourceContents
    /\ tables = EmptyTables
    /\ trace = <<>>
    /\ lastRun = NoRun

-----------------------------------------------------------------------------
(* Actions *)

\* an exit that reports success
ExitZero(code) ==
    /\ pc' = "exited"
    /\ exitCode' = 0
    /\ exitAt' = pc

\* os.Exit(code) / log.Fatalf: the process ends at once; deferred calls do
\* not run.
Exit(code) ==
    /\ pc' = "exited"
    /\ exitCode' = code
    /\ exitAt' = pc

\* the process goes on to position p
Goto(p) ==
    /\ pc' = p
    /\ UNCHANGED <<exitCode, exitAt>>

\* main: whether the startup check rejects the flags.  Only src/main.go
\* has the check.
MissingDsn == program = "main" /\ (pgDsn = "" \/ mysqlDsn = "")

\* main: flag.Parse() and the DSN check
Start ==
    /\ UNCHANGED lastRun
    /\ pc = "start"
    /\ IF MissingDsn
       THEN Exit(1)
       ELSE Goto("loop")
    /\ UNCHANGED <<program, pgDsn, mysqlDsn, executionTime, now, execution, loopNow,
                   pgDb, sqlDb, today, idx, count, source, tables, trace>>

\* main, top of the loop: now := time.Now(); execution := ...
ComputeDue ==
    /\ UNCHANGED lastRun
    /\ pc = "loop"
    /\ loopNow' = now
    /\ execution' = NextExecution(now, ExecHour, ExecMinute)
    /\ Goto("sleep")
    /\ UNCHANGED <<program, pgDsn, mysqlDsn, executionTime, now,
                   pgDb, sqlDb, today, idx, count, source, tables, trace>>

\* main: time.Sleep(time.Until(execution)), then the call of transferData
Sleep ==
    /\ pc = "sleep"
    /\ \E d \in Overshoots :
          /\ now' = Max(now, execution) + d
          /\ now' <= Horizon
    /\ Goto("open_pg")
    /\ trace' = <<>>
    /\ lastRun' = RunStarted(lastRun, now')
    /\ UNCHANGED <<program, pgDsn, mysqlDsn, executionTime, execution,
                   loopNow, pgDb, sqlDb, today, idx, count, source, tables>>

\* a failed open that is only logged
OpenErrIgnored(ok) == FALSE

\* transferData: err != nil after sql.Open
OpenErr(ok) == ~ok

\* transferData: sql.Open("postgres", pgDsn); defer pgDb.Close()
OpenPg ==
    /\ UNCHANGED lastRun
    /\ pc = "open_pg"
    /\ \E ok \in BOOLEAN :
          /\ trace' = Append(trace, Event("open_pg", 0, IF ok THEN "ok" ELSE "error",
                                          "", 0, 0))
          /\ IF OpenErr(ok)
             THEN pgDb' = pgDb /\ Exit(1)
             ELSE pgDb' = TRUE /\ Goto("open_mysql")
    /\ UNCHANGED <<program, pgDsn, mysqlDsn, executionTime, now, execution, loopNow,
                   sqlDb, today, idx, count, source, tables>>

\* transferData: sql.Open("mysql", mysqlDsn); defer sqlDb.Close()
OpenMysql ==
    /\ UNCHANGED lastRun
    /\ pc = "open_mysql"
    /\ \E ok \in BOOLEAN :
          /\ trace' = Append(trace, Event("open_mysql", 0, IF ok THEN "ok" ELSE "error",
                                          "", 0, 0))
          /\ IF OpenErr(ok)
             THEN sqlDb' = sqlDb /\ Exit(1)
             ELSE sqlDb' = TRUE /\ Goto("today")
    /\ UNCHANGED <<program, pgDsn, mysqlDsn, executionTime, now, execution, loopNow,
                   pgDb, today, idx, count, source, tables>>

\* transferData: today := time.Now().Format("2006-01-02")
ReadToday ==
    /\ UNCHANGED lastRun
    /\ pc = "today"
    /\ today' = DateOf(now)
    /\ idx' = 1
    /\ Goto("query")
    /\ trace' = Append(trace, Event("date", 0, "ok", "", DateOf(now), 0))
    /\ UNCHANGED <<program, pgDsn, mysqlDsn, executionTime, now, execution,
                   loopNow, pgDb, sqlDb, count, source, tables>>

\* queryCount for metric idx
Query ==
    /\ UNCHANGED lastRun
    /\ pc = "query"
    /\ \E r \in QueryResults(program, idx, source), d \in Delays :
          /\ now' = now + d
          /\ now' <= Horizon
          /\ count' = ScannedCount(r)
          /\ trace' = Append(trace, Event("read", idx, r.kind, TableName(program, idx),
                                          today, ScannedCount(r)))
          /\ IF QueryErr(r)
             THEN Exit(1)
             ELSE Goto("insert")
    /\ UNCHANGED <<program, pgDsn, mysqlDsn, executionTime, execution, loopNow,
                   pgDb, sqlDb, today, idx, source, tables>>

\* the same metric evaluated again
NextMetricRepeat(i) == i

\* transferData: the metric whose statements follow those of metric i
NextMetric(i) == i + 1

\* insertToMySQL for metric idx, and the step to the next metric
Insert ==
    /\ UNCHANGED lastRun
    /\ pc = "insert"
    /\ \E fault \in BOOLEAN :
          LET name == TableName(program, idx)
              res  == ExecResult(tables[name], DateArg, fault)
          IN  /\ now' = now + InsertDelay
              /\ now' <= Horizon
              /\ trace' = Append(trace, Event("insert", idx, res, name, DateArg, count))
              /\ tables' = IF res = "ok" THEN InsertRow(tables, name, DateArg, count)
                                         ELSE tables
              /\ IF InsertErr(res)
                 THEN Exit(1) /\ idx' = idx
                 ELSE IF idx < Len(Catalog(program))
                      THEN idx' = NextMetric(idx) /\ Goto("query")
                      ELSE idx' = idx /\ Goto("ret")
    /\ UNCHANGED <<program, pgDsn, mysqlDsn, executionTime, execution, loopNow,
                   pgDb, sqlDb, today, count, source>>

\* transferData returns: the deferred sqlDb.Close() and pgDb.Close() run,
\* and main goes round the loop
Return ==
    /\ UNCHANGED lastRun
    /\ pc = "ret"
    /\ sqlDb' = FALSE
    /\ pgDb' = FALSE
    /\ Goto("loop")
    /\ UNCHANGED <<program, pgDsn, mysqlDsn, executionTime, now, execution,
                   loopNow, today, idx, count, source, tables, trace>>

\* An external supervisor starts the process again with the same flags; the
\* destination store keeps its rows, the process state is new.  The new
\* process reads the clock strictly later than the old one did: on the tick
\* grid that is at least one tick on.
Restart ==
    /\ pc = "exited"
    /\ now + 1 <= Horizon
    /\ now' = now + 1
    /\ pc' = "start"
    /\ exitCode' = 0
    /\ exitAt' = ""
    /\ execution' = 0
    /\ loopNow' = 0
    /\ pgDb' = FALSE
    /\ sqlDb' = FALSE
    /\ today' = 0
    /\ idx' = 0
    /\ count' = 0
    /\ trace' = <<>>
    /\ UNCHANGED <<program, pgDsn, mysqlDsn, executionTime, source, tables, lastRun>>

Next ==
    \/ Start
    \/ ComputeDue
    \/ Sleep
    \/ OpenPg
    \/ OpenMysql
    \/ ReadToday
    \/ Query
    \/ Insert
    \/ Return
    \/ Restart

Spec == Init /\ [][Next]_vars

-----------------------------------------------------------------------------
(* The due-time computation on its own: every execution time HH:MM, with   *)
(* the clock at the start of a day, around HH:MM and at the end of the day *)

FormatHHMM(h, m) ==
    << Digits[(h \div 10) + 1], Digits[(h % 10) + 1], ":",
       Digits[(m \div 10) + 1], Digits[(m % 10) + 1] >>

AllExecTimeStrs ==
    {FormatHHMM(h, m) : h \in 0..(HoursPerDay - 1), m \in 0..(MinutesPerHour - 1)}

DueInstants(str) ==
    LET t == TimeDate(1, parseExecutionTime(str)[1], parseExecutionTime(str)[2])
    IN  {TicksPerDay, t - 1, t, t + 1, 2 * TicksPerDay - 1}

InitDue ==
    /\ program \in Programs
    /\ pgDsn = "dsn"
    /\ mysqlDsn = "dsn"
    /\ executionTime \in AllExecTimeStrs
    /\ now \in DueInstants(executionTime)
    /\ pc = "loop"
    /\ exitCode = 0
    /\ exitAt = ""
    /\ execution = 0
    /\ loopNow = 0
    /\ pgDb = FALSE
    /\ sqlDb = FALSE
    /\ today = 0
    /\ idx = 0
    /\ count = 0
    /\ source = [i \in 1..MaxMetrics |-> 0]
    /\ tables = EmptyTables
    /\ trace = <<>>
    /\ lastRun = NoRun

NextDue == ComputeDue

SpecDue == InitDue /\ [][NextDue]_vars

-----------------------------------------------------------------------------
(* Parsing of -executionTime on its own: every well-formed HH:MM and some  *)
(* malformed values: empty, not a number, no minute, hour 25, minute 75    *)

MalformedStrs ==
    { <<>>,
      <<"a", "b", "c">>,
      <<"7">>,
      <<"2", "5", ":", "0", "0">>,
      <<"1", "2", ":", "7", "5">> }

InitParse ==
    /\ program \in Programs
    /\ pgDsn = "dsn"
    /\ mysqlDsn = "dsn"
    /\ executionTime \in AllExecTimeStrs \cup MalformedStrs
    /\ now \in {TicksPerDay, 2 * TicksPerDay - 1}
    /\ pc = "loop"
    /\ exitCode = 0
    /\ exitAt = ""
    /\ execution = 0
    /\ loopNow = 0
    /\ pgDb = FALSE
    /\ sqlDb = FALSE
    /\ today = 0
    /\ idx = 0
    /\ count = 0
    /\ source = [i \in 1..MaxMetrics |-> 0]
    /\ tables = EmptyTables
    /\ trace = <<>>
    /\ lastRun = NoRun

NextParse == ComputeDue

SpecParse == InitParse /\ [][NextParse]_vars

-----------------------------------------------------------------------------
(* Claims *)

\* today at the execution time, for the clock value the loop iteration read
TodayAt == TimeDate(DateOf(loopNow), ExecHour, ExecMinute)

\* C1 as stated: the due time is today at HH:MM if that instant is still in
\* the future (strictly after now), otherwise tomorrow at HH:MM, and it is
\* never earlier than now.
C1_AsStated ==
    pc = "sleep" =>
        /\ execution = (IF TodayAt > loopNow THEN TodayAt ELSE TodayAt + TicksPerDay)
        /\ execution >= loopNow

\* C1 amended: the due time is today at HH:MM if that instant is now or in
\* the future, otherwise tomorrow at HH:MM; it is never earlier than now and
\* at most one day ahead.
C1_DueTime ==
    pc = "sleep" =>
        /\ execution = (IF TodayAt >= loopNow THEN TodayAt ELSE TodayAt + TicksPerDay)
        /\ execution >= loopNow
        /\ execution - loopNow < TicksPerDay

\* C1 witness: the boundary, where the clock reads exactly HH:MM and the
\* due time is that very instant.
C1_Witness ==
    /\ pc = "sleep"
    /\ loopNow = TodayAt
    /\ execution = loopNow
    /\ ExecHour = 23 /\ ExecMinute = 59

-----------------------------------------------------------------------------
(* What the history of the current run says *)

Last(tr) == tr[Len(tr)]

\* positions of the trace holding a failed source read
FailedReads(tr) == {k \in 1..Len(tr) : tr[k].op = "read" /\ tr[k].res # "int"}

\* positions of the trace holding an insert with the given outcome
Inserts(tr, res) == {k \in 1..Len(tr) : tr[k].op = "insert" /\ tr[k].res = res}

\* some step of the run failed
Failed(tr) == \E k \in 1..Len(tr) : tr[k].res \notin {"ok", "int"}

\* every metric of the catalog was read and inserted
RunSucceeded(prog, tr) ==
    \A i \in 1..Len(Catalog(prog)) :
        \E k \in Inserts(tr, "ok") : tr[k].i = i

\* rows of a table that carry a date
RowsOf(rows, date) == {k \in 1..Len(rows) : rows[k].date = date}

\* C2 as stated: after a failed source read the run goes on and the process
\* does not terminate.
C2_AsStated ==
    FailedReads(trace) # {} => pc # "exited"

\* C2 amended: a failed source read ends the process at once with exit
\* status 1; nothing is read or written after it in that run.
C2_ReadFailStops ==
    \A k \in FailedReads(trace) :
        /\ k = Len(trace)
        /\ pc = "exited"
        /\ exitCode = 1
        /\ exitAt = "query"
        /\ idx = trace[k].i
        /\ \A j \in Inserts(trace, "ok") : trace[j].i < trace[k].i

\* C2 witness: the read of a metric failed while later metrics remain.
C2_Witness ==
    /\ FailedReads(trace) # {}
    /\ idx = 2
    /\ idx < Len(Catalog(program))
    /\ pc = "exited"

C4_AsStated ==
    pc = "exited" => exitAt \notin {"query", "insert"}

\* C4 amended: a run leaves Running for Waiting only after every metric was
\* read and inserted, and the loop then computes another due time; a run in
\* which an open, a read or an insert failed ends the process with exit
\* status 1 instead.
C4_LoopContinues ==
    [][ /\ (pc \in RunPcs /\ pc' \notin RunPcs) =>
              IF Failed(trace')
              THEN pc' = "exited" /\ exitCode' = 1 /\ exitAt' = pc
              ELSE pc = "ret" /\ pc' = "loop" /\ RunSucceeded(program, trace')
        /\ (pc \in RunPcs /\ Failed(trace')) => pc' = "exited"
        /\ pc = "loop" => (pc' = "sleep" /\ execution' >= now) ]_vars

\* C4 witness: after a run that succeeded for every metric the scheduler
\* has computed the next due time and waits.
C4_Witness ==
    /\ pc = "sleep"
    /\ RunSucceeded(program, trace)
    /\ execution > now

\* C5 as stated: whenever the process is not inside a run, no connection
\* is open.
C5_AsStated ==
    pc \notin RunPcs => ~pgDb /\ ~sqlDb


\* positions of the trace where the run read the date from the clock
DateReads(tr) == {k \in 1..Len(tr) : tr[k].op = "date"}

\* C6: a run reads the date from the clock once, and every row it writes
\* carries that date, whatever the clock says when the row is written.
C6_OneDatePerRun ==
    /\ Cardinality(DateReads(trace)) <= 1
    /\ \A k \in Inserts(trace, "ok") :
          \E d \in DateReads(trace) :
             /\ d < k
             /\ trace[k].date = trace[d].date
             /\ \E j \in 1..Len(tables[trace[k].table]) :
                   tables[trace[k].table][j] = Row(trace[d].date, trace[k].count)

\* C6 witness: the first metric was written before midnight, the second
\* after it, and both rows carry the date read at the start of the run.
C6_Witness ==
    /\ pc = "query"
    /\ idx = 3
    /\ Cardinality(Inserts(trace, "ok")) = 2
    /\ DateOf(now) = today + 1
    /\ now - (today + 1) * TicksPerDay <= InsertDelay + 1
    /\ \A i \in 1..2 : RowsOf(tables[TableName(program, i)], today) # {}

\* C7: a successful write of metric i, read as count c in a run of date d,
\* appends the row (d, c) to the table of metric i and changes no other
\* table; the keys of a catalog are pairwise distinct; a run that succeeded
\* for every metric has added one row per metric.
C7_OneRowPerMetric ==
    [][ /\ \A p \in Programs : \A i, j \in 1..Len(Catalog(p)) :
              i # j => Catalog(p)[i] # Catalog(p)[j]
        /\ (pc = "insert" /\ pc' \in {"query", "ret"}) =>
              LET key == Catalog(program)[idx]
              IN  /\ Last(trace).op = "read"
                  /\ Last(trace).i = idx
                  /\ Last(trace).res = "int"
                  /\ Last(trace).count = source[idx]
                  /\ tables'[key] = Append(tables[key], Row(today, source[idx]))
                  /\ \A t \in TableNames \ {key} : tables'[t] = tables[t]
        /\ (pc = "insert" /\ pc' = "ret") =>
              /\ Cardinality(Inserts(trace', "ok")) = Len(Catalog(program))
              /\ \A i \in 1..Len(Catalog(program)) :
                    \E j \in 1..Len(tables'[Catalog(program)[i]]) :
                       tables'[Catalog(program)[i]][j] = Row(today, source[i])
      ]_vars

\* C7 witness: a run succeeded for every metric and each table holds the
\* row of its own metric.
C7_Witness ==
    /\ pc = "ret"
    /\ source[1] # source[2]
    /\ \A i \in 1..Len(Catalog(program)) :
          \E j \in 1..Len(tables[Catalog(program)[i]]) :
             tables[Catalog(program)[i]][j] = Row(today, source[i])

\* C8: an insert is attempted only for a metric whose read, just before
\* it, returned an integer, and with that integer; a read that found no
\* row, a NULL or an error is never followed by a write.
C8_NoCoercionToZero ==
    /\ \A k \in 1..Len(trace) :
          trace[k].op = "insert" =>
             /\ k > 1
             /\ trace[k - 1].op = "read"
             /\ trace[k - 1].i = trace[k].i
             /\ trace[k - 1].res = "int"
             /\ trace[k].count = source[trace[k].i]
    /\ \A k \in FailedReads(trace) : k = Len(trace)

\* C8 witness: a read came back NULL and the table of that metric has no
\* row of the run's date.
C8_Witness ==
    /\ trace # <<>>
    /\ Last(trace).op = "read"
    /\ Last(trace).res = "null"
    /\ RowsOf(tables[TableName(program, idx)], today) = {}
    /\ pc = "exited"

\* C9 as stated: after an insert failed with a genuine error the process
\* does not terminate.
C9_AsStated ==
    Inserts(trace, "error") # {} => pc # "exited"

\* C9 amended: an insert that fails with a genuine error ends the process
\* at once with exit status 1; no row is added for that metric and nothing
\* is read or written after it in that run.
C9_WriteFailStops ==
    \A k \in Inserts(trace, "error") :
        /\ k = Len(trace)
        /\ pc = "exited"
        /\ exitCode = 1
        /\ exitAt = "insert"
        /\ idx = trace[k].i
        /\ RowsOf(tables[trace[k].table], trace[k].date) = {}

\* C9 witness: the insert of a metric failed while later metrics remain.
C9_Witness ==
    /\ Inserts(trace, "error") # {}
    /\ idx = 2
    /\ idx < Len(Catalog(program))
    /\ pc = "exited"

\* C10 as stated: with a connection string missing the process exits with
\* status 1 at startup: it never enters the loop.
C10_AsStated ==
    (pgDsn = "" \/ mysqlDsn = "") =>
        /\ pc \in {"start", "exited"}
        /\ pc = "exited" => (exitCode = 1 /\ exitAt = "start")


\* C11 as stated: the scheduler only ever works with an hour in 0..23 and
\* a minute in 0..59 that come from a well-formed HH:MM string; a malformed
\* string is reported and never reaches the loop's due-time computation.
C11_AsStated ==
    pc = "sleep" =>
        /\ ExecHour \in 0..(HoursPerDay - 1)
        /\ ExecMinute \in 0..(MinutesPerHour - 1)
        /\ executionTime \in AllExecTimeStrs

\* positions of the trace holding a failed sql.Open
FailedOpens(tr) ==
    {k \in 1..Len(tr) : tr[k].op \in {"open_pg", "open_mysql"} /\ tr[k].res = "error"}

\* C12: a failed open of the source or the destination connection ends the
\* process with exit status 1, and that run performs no read and no write.
C12_OpenFailFatal ==
    \A k \in FailedOpens(trace) :
        /\ k = Len(trace)
        /\ pc = "exited"
        /\ exitCode = 1
        /\ exitAt = trace[k].op
        /\ \A j \in 1..Len(trace) : trace[j].op \notin {"date", "read", "insert"}

\* C12 witness: the destination connection could not be opened after the
\* source connection was.
C12_Witness ==
    /\ FailedOpens(trace) # {}
    /\ Last(trace).op = "open_mysql"
    /\ pc = "exited"
    /\ exitCode = 1

\* C13: a run starts no earlier than the due time its loop iteration
\* computed, which is no earlier than the instant the iteration began; when
\* that instant is after today's execution time the run starts no earlier
\* than tomorrow's execution time.
C13_NoCatchUp ==
    [][ (pc = "sleep" /\ pc' = "open_pg") =>
            /\ execution >= loopNow
            /\ now' >= execution
            /\ loopNow > TodayAt => now' >= TodayAt + TicksPerDay ]_vars

\* C13 witness: the process came up just after today's execution time and
\* its run starts at tomorrow's execution time.
C13_Witness ==
    /\ pc = "open_pg"
    /\ loopNow = TodayAt + 1
    /\ now = TodayAt + TicksPerDay
    /\ tables = EmptyTables

RunReturned ==
    /\ ~pgDb
    /\ ~sqlDb
    /\ trace # <<>> => (Last(trace).op = "insert" /\ Last(trace).res = "ok"
                         /\ Last(trace).i = Len(Catalog(program)))

\* C15: a run starts only from Waiting and a due time is computed only
\* after the previous run returned; within a run the metrics are read and
\* written one after another in catalog order.
C15_Sequential ==
    [][ /\ pc' = "sleep" => (pc = "loop" /\ RunReturned)
        /\ (pc' = "open_pg" /\ pc # "open_pg") => pc = "sleep"
        /\ (trace' # trace /\ trace' # <<>> /\ Last(trace').op = "read") =>
              \/ Last(trace).op = "date" /\ Last(trace').i = 1
              \/ /\ Last(trace).op = "insert"
                 /\ Last(trace).res = "ok"
                 /\ Last(trace').i = Last(trace).i + 1
        /\ (trace' # trace /\ trace' # <<>> /\ Last(trace').op = "insert") =>
              /\ Last(trace).op = "read"
              /\ Last(trace).res = "int"
              /\ Last(trace').i = Last(trace).i ]_vars

\* C15 witness: a whole run has gone by, two steps per metric after the
\* two opens and the date, and the loop is back at its top.
C15_Witness ==
    /\ pc = "loop"
    /\ Len(trace) = 3 + 2 * Len(Catalog(program))
    /\ RunReturned

\* the row an insert of the trace wrote is in its table
RowPresent(e) ==
    \E j \in 1..Len(tables[e.table]) : tables[e.table][j] = Row(e.date, e.count)

\* C16: the first failed read or insert of a run, a rejected duplicate
\* included, ends the process with exit status 1; it is the last thing the
\* run did, and the rows inserted before it are still in the destination.
C16_FailStop ==
    /\ \A k \in 1..Len(trace) :
          (trace[k].op \in {"read", "insert"} /\ trace[k].res \notin {"ok", "int"}) =>
             /\ k = Len(trace)
             /\ pc = "exited"
             /\ exitAt = IF trace[k].op = "read" THEN "query" ELSE "insert"
    /\ (pc = "exited" /\ exitAt \in {"query", "insert"}) =>
          /\ exitCode = 1
          /\ Last(trace).res \notin {"ok", "int"}
          /\ \A k \in Inserts(trace, "ok") : RowPresent(trace[k])

\* C16 witness: the third read failed after two metrics were inserted.
C16_Witness ==
    /\ pc = "exited"
    /\ exitAt = "query"
    /\ exitCode = 1
    /\ idx = 3
    /\ Cardinality(Inserts(trace, "ok")) = 2
    /\ \A k \in Inserts(trace, "ok") : RowPresent(trace[k])

\* metrics for which the current run has inserted a row
Inserted(tr) == {tr[k].i : k \in Inserts(tr, "ok")}

\* C17: the metrics inserted by the current run form a prefix of the
\* catalog, and an insert is attempted only after the read of the same
\* metric succeeded and every earlier metric was read and inserted.
C17_Prefix ==
    /\ Inserted(trace) = 1..Cardinality(Inserted(trace))
    /\ \A k \in 1..Len(trace) :
          trace[k].op = "insert" =>
             /\ \E r \in 1..(k - 1) :
                   trace[r].op = "read" /\ trace[r].i = trace[k].i /\ trace[r].res = "int"
             /\ \A i \in 1..(trace[k].i - 1) :
                   /\ \E r \in 1..(k - 1) :
                         trace[r].op = "read" /\ trace[r].i = i /\ trace[r].res = "int"
                   /\ \E w \in 1..(k - 1) :
                         trace[w].op = "insert" /\ trace[w].i = i /\ trace[w].res = "ok"

\* C17 witness: the third metric is about to be written, the first two are.
C17_Witness ==
    /\ pc = "insert"
    /\ idx = 3
    /\ Inserted(trace) = {1, 2}

\* C18 as stated: no run starts on a calendar date on which an earlier run
\* has started.
C18_AsStated ==
    ~lastRun.again

\* C19 as stated: every row a run writes carries the calendar date of the
\* due time that triggered the run.
C19_AsStated ==
    \A k \in Inserts(trace, "ok") : trace[k].date = DateOf(execution)

====
